---- MODULE Spec2Model ----
(***************************************************************************)
(* Model of the transducer forward score of src/ha/transducer.py: the four *)
(* score functions, applied one after the other to the same inputs as      *)
(* test_random does.                                                       *)
(*                                                                         *)
(* Numbers.  A probability is an exact non-negative rational <<n, d>> in   *)
(* lowest terms.  A log-domain number is [log |-> q], the logarithm of the *)
(* positive rational q: adding two of them multiplies the q's, logaddexp   *)
(* adds the q's.  The input scores are held by their exponentials, small   *)
(* positive integers, so that softmax over a sum of scores is exact.       *)
(* Floating rounding is not modelled: "within tolerance" is equality here. *)
(***************************************************************************)
EXTENDS Integers, FiniteSets, Sequences, TLC

MaxT == 2     \* time steps
MaxU == 2     \* label positions (targets + leading blank)
MaxK == 2     \* vocabulary size
Peak == 2     \* exp(score) of the blank in a row that favours the blank

VARIABLES transcription_probs, prediction_probs, targets,
          pc, joint, alpha, log_alpha, t, u,
          loss1, loss2, loss3, loss4,
          wcount, staleRead

vars == <<transcription_probs, prediction_probs, targets, pc, joint, alpha,
          log_alpha, t, u, loss1, loss2, loss3, loss4, wcount, staleRead>>

inputs == <<transcription_probs, prediction_probs, targets>>

----------------------------------------------------------------------------
(* Exact arithmetic *)

RECURSIVE GCD(_, _)
GCD(a, b) == IF b = 0 THEN a ELSE GCD(b, a % b)

Rat(n, d) == LET g == GCD(n, d) IN <<n \div g, d \div g>>

RZero == <<0, 1>>
ROne == <<1, 1>>

RMul(x, y) ==
    LET g1 == GCD(x[1], y[2])
        g2 == GCD(y[1], x[2])
    IN  <<(x[1] \div g1) * (y[1] \div g2), (x[2] \div g2) * (y[2] \div g1)>>

RAdd(x, y) ==
    LET g == GCD(x[2], y[2])
        l == (x[2] \div g) * y[2]
    IN  Rat(x[1] * (l \div x[2]) + y[1] * (l \div y[2]), l)

\* log-domain numbers
Log(q) == [log |-> q]
Exp(x) == x.log
LAdd(x, y) == Log(RMul(Exp(x), Exp(y)))
LogAddExp(x, y) == Log(RAdd(Exp(x), Exp(y)))
LZero == Log(ROne)
\* torch.finfo(torch.float).min: its exponential underflows to 0
FloatMin == Log(RZero)

RECURSIVE SumOver(_, _, _)
\* f[lo] + ... + f[hi] of integers
SumOver(f, lo, hi) == IF hi < lo THEN 0 ELSE SumOver(f, lo, hi - 1) + f[hi]

----------------------------------------------------------------------------
(* Shapes *)

Rows(m) == Cardinality(DOMAIN m)
Cols(m) == Cardinality(DOMAIN m[0])

T == Rows(transcription_probs)
U == Rows(prediction_probs)
K1 == Cols(transcription_probs)
K2 == Cols(prediction_probs)

\* the score rows the inputs are drawn from, by their exponentials: the two
\* kinds of row of _test_simple, one that favours the blank and one that
\* rises along the vocabulary
BlankRow(k) == [i \in 0..(k - 1) |-> IF i = 0 THEN Peak ELSE 1]
RampRow(k) == [i \in 0..(k - 1) |-> i + 1]
ScoreRows(k) == {BlankRow(k), RampRow(k)}
Scores(rows, k) == [0..(rows - 1) -> ScoreRows(k)]

\* a fresh rows x cols table filled with v: new_zeros, new_full
NewFull(rows, cols, v) == [i \in 0..(rows - 1) |-> [j \in 0..(cols - 1) |-> v]]

----------------------------------------------------------------------------
(* Joint lattice: (f[:, None, :] + g[None, :, :]).softmax(dim=-1) *)

\* torch broadcasting of the last dimension
Broadcastable(k1, k2) == k1 = k2 \/ k1 = 1 \/ k2 = 1
BroadcastSize(k1, k2) == IF k1 >= k2 THEN k1 ELSE k2
BroadcastAt(row, k) == IF Cardinality(DOMAIN row) = 1 THEN row[0] ELSE row[k]

\* size of the joint lattice's last dimension
KJ == BroadcastSize(K1, K2)

\* exp(f[tt, k] + g[uu, k]) for every k
ExpSum(tt, uu) ==
    [k \in 0..(KJ - 1) |-> BroadcastAt(transcription_probs[tt], k)
                           * BroadcastAt(prediction_probs[uu], k)]

Softmax(w) ==
    LET z == SumOver(w, 0, Cardinality(DOMAIN w) - 1)
    IN  [k \in DOMAIN w |-> Rat(w[k], z)]

LogSoftmax(w) == [k \in DOMAIN w |-> Log(Softmax(w)[k])]

joint_probs == [tt \in 0..(T - 1) |-> [uu \in 0..(U - 1) |-> Softmax(ExpSum(tt, uu))]]
joint_logs == [tt \in 0..(T - 1) |-> [uu \in 0..(U - 1) |-> LogSoftmax(ExpSum(tt, uu))]]

----------------------------------------------------------------------------
(* Indexing *)

\* x[..., k] with an integer k: negative k counts from the end
IndexOK(k, size) == -size <= k /\ k < size
Index(k, size) == IF k < 0 THEN k + size ELSE k

\* torch.gather takes indices in [0, size) only
GatherOK(tg, size) == \A i \in DOMAIN tg : 0 <= tg[i] /\ tg[i] < size

----------------------------------------------------------------------------
(* Results of a call *)

NoValue == [kind |-> "none"]
Value(v) == [kind |-> "value", val |-> v]
Raised(e) == [kind |-> "raised", err |-> e]

Cells == (0..(T - 1)) \X (0..(U - 1))
NoWrites == NewFull(T, U, 0)
Wrote(wc, cs) ==
    [tt \in 0..(T - 1) |-> [uu \in 0..(U - 1) |->
        IF <<tt, uu>> \in cs THEN wc[tt][uu] + 1 ELSE wc[tt][uu]]]
Stale(wc, cs) == \E c \in cs : wc[c[1]][c[2]] = 0

----------------------------------------------------------------------------
(* transducer_forward_score1 *)

\* the cells the recurrence reads to fill (tt, uu)
FromLeftCell(tt, uu) == <<tt - 1, uu>>
FromBotCell(tt, uu) == <<tt, uu - 1>>
S1Reads(tt, uu) ==
    (IF tt > 0 THEN {FromLeftCell(tt, uu)} ELSE {})
    \cup (IF uu > 0 THEN {FromBotCell(tt, uu)} ELSE {})

At(al, c) == al[c[1]][c[2]]

\* faulty variant: the symbol of the next column, targets[uu]
S1SymbolProb_NextTarget(jnt, tg, tt, uu) == jnt[tt][uu - 1][Index(tg[uu], KJ)]

\* joint_probs[tt, uu-1, targets[uu-1]]
S1SymbolProb(jnt, tg, tt, uu) == jnt[tt][uu - 1][Index(tg[uu - 1], KJ)]
\* faulty variant: the blank of the cell itself, joint_probs[tt, uu, 0]
S1BlankProb_SameRow(jnt, tt, uu) == jnt[tt][uu][0]

\* joint_probs[tt-1, uu, 0]
S1BlankProb(jnt, tt, uu) == jnt[tt - 1][uu][0]

\* the value assigned to alpha[tt, uu]
S1Cell(jnt, tg, al, tt, uu) ==
    IF tt = 0 /\ uu = 0 THEN ROne
    ELSE IF tt = 0
         THEN RMul(At(al, FromBotCell(tt, uu)), S1SymbolProb(jnt, tg, tt, uu))
    ELSE IF uu = 0
         THEN RMul(At(al, FromLeftCell(tt, uu)), S1BlankProb(jnt, tt, uu))
    ELSE RAdd(RMul(At(al, FromLeftCell(tt, uu)), S1BlankProb(jnt, tt, uu)),
              RMul(At(al, FromBotCell(tt, uu)), S1SymbolProb(jnt, tg, tt, uu)))

\* where the loops go after cell (tt, uu) is filled
S1Next(tt, uu) ==
    IF uu + 1 < U THEN [pc |-> IF tt = 0 THEN "s1_row0" ELSE "s1_inner",
                        t |-> tt, u |-> uu + 1]
    ELSE IF tt + 1 < T THEN [pc |-> "s1_col0", t |-> tt + 1, u |-> 0]
    ELSE [pc |-> "s1_return", t |-> tt, u |-> uu]

S1_Raise(e) ==
    /\ loss1' = Raised(e)
    /\ pc' = "call2"
    /\ t' = 0 /\ u' = 0
    /\ UNCHANGED <<joint, alpha, log_alpha, wcount, staleRead>>

S1_Fill ==
    LET nx == S1Next(t, u) IN
    /\ alpha' = [alpha EXCEPT ![t][u] = S1Cell(joint, targets, alpha, t, u)]
    /\ wcount' = Wrote(wcount, {<<t, u>>})
    /\ staleRead' = (staleRead \/ Stale(wcount, S1Reads(t, u)))
    /\ pc' = nx.pc /\ t' = nx.t /\ u' = nx.u
    /\ UNCHANGED <<joint, log_alpha, loss1>>

S1_Enter ==
    /\ pc = "call1"
    /\ IF ~Broadcastable(K1, K2)
       THEN S1_Raise("RuntimeError")
       ELSE LET nx == S1Next(0, 0) IN
            /\ joint' = joint_probs
            /\ alpha' = [NewFull(T, U, RZero) EXCEPT ![0][0] = ROne]
            /\ wcount' = Wrote(NoWrites, {<<0, 0>>})
            /\ pc' = nx.pc /\ t' = nx.t /\ u' = nx.u
            /\ UNCHANGED <<log_alpha, staleRead, loss1>>
    /\ UNCHANGED <<inputs, loss2, loss3, loss4>>

S1_Row0 ==
    /\ pc = "s1_row0"
    /\ IF ~IndexOK(targets[u - 1], KJ) THEN S1_Raise("IndexError") ELSE S1_Fill
    /\ UNCHANGED <<inputs, loss2, loss3, loss4>>

S1_Col0 ==
    /\ pc = "s1_col0"
    /\ S1_Fill
    /\ UNCHANGED <<inputs, loss2, loss3, loss4>>

S1_Inner ==
    /\ pc = "s1_inner"
    /\ IF ~IndexOK(targets[u - 1], KJ) THEN S1_Raise("IndexError") ELSE S1_Fill
    /\ UNCHANGED <<inputs, loss2, loss3, loss4>>

S1_Return ==
    /\ pc = "s1_return"
    /\ loss1' = Value(RMul(alpha[T - 1][U - 1], joint[T - 1][U - 1][0]))
    /\ pc' = "call2"
    /\ t' = 0 /\ u' = 0
    /\ UNCHANGED <<inputs, joint, alpha, log_alpha, wcount, staleRead,
                   loss2, loss3, loss4>>

----------------------------------------------------------------------------
(* Vector operations of the row-at-a-time formulations *)

RECURSIVE RProd(_, _, _)
RProd(f, lo, hi) == IF hi < lo THEN ROne ELSE RMul(RProd(f, lo, hi - 1), f[hi])

RECURSIVE LSum(_, _, _)
LSum(f, lo, hi) == IF hi < lo THEN LZero ELSE LAdd(LSum(f, lo, hi - 1), f[hi])

\* torch.cumprod, and torch.cumsum of log-domain numbers
CumProd(v) == [i \in DOMAIN v |-> RProd(v, 0, i)]
CumSum(v) == [i \in DOMAIN v |-> LSum(v, 0, i)]

\* joint[tt, :].gather(-1, targets[:, None])[:, 0]
Gather(jrow, tg) == [uu \in DOMAIN jrow |-> jrow[uu][tg[uu]]]

\* torch.cat((one, v[:-1]))
ShiftIn(one, v) == [i \in DOMAIN v |-> IF i = 0 THEN one ELSE v[i - 1]]

\* faulty variant: the gathered symbols are not shifted by one column
FromBot_NoShift(jnt, tg, tt, one) == Gather(jnt[tt], tg)

\* from_bot of row tt: the label advance into each column
FromBot(jnt, tg, tt, one) == ShiftIn(one, Gather(jnt[tt], tg))

\* faulty variant: the step reads the column it is about to write
PrevCol_Same(uu) == uu

\* the row (column) a row-at-a-time step reads
PrevRow(tt) == tt - 1
PrevCol(uu) == uu - 1

RowCells(tt) == {<<tt, uu>> : uu \in 0..(U - 1)}
ColCells(uu) == {<<tt, uu>> : tt \in 0..(T - 1)}

RECURSIVE ScanTerms(_, _, _, _)
\* sum over the entry points k = 0..n of b[k] * a[k+1] * ... * a[i]
ScanTerms(a, b, i, n) ==
    LET term == RMul(b[n], RProd(a, n + 1, i))
    IN  IF n = 0 THEN term ELSE RAdd(ScanTerms(a, b, i, n - 1), term)

\* scanrec(a, b): x[i] = a[i] * x[i-1] + b[i], unrolled over the entry points
scanrec(a, b) == [i \in DOMAIN b |-> ScanTerms(a, b, i, i)]

RECURSIVE ScanTermsLog(_, _, _, _)
ScanTermsLog(a, b, i, n) ==
    LET term == LAdd(b[n], LSum(a, n + 1, i))
    IN  IF n = 0 THEN term ELSE LogAddExp(ScanTermsLog(a, b, i, n - 1), term)

\* scanrec_log(a, b): x[i] = logaddexp(a[i] + x[i-1], b[i])
scanrec_log(a, b) == [i \in DOMAIN b |-> ScanTermsLog(a, b, i, i)]

----------------------------------------------------------------------------
(* transducer_forward_score2 *)

S2Row0(jnt, tg) == CumProd(FromBot(jnt, tg, 0, ROne))

\* faulty variant: the blank of row tt, not of row tt-1
S2FromLeft_SameRow(jnt, prev, tt) == [uu \in DOMAIN prev |-> RMul(prev[uu], jnt[tt][uu][0])]

S2FromLeft(jnt, prev, tt) == [uu \in DOMAIN prev |-> RMul(prev[uu], jnt[tt - 1][uu][0])]

S2Row(jnt, tg, prev, tt) ==
    scanrec(FromBot(jnt, tg, tt, ROne), S2FromLeft(jnt, prev, tt))

S2_Raise(e) ==
    /\ loss2' = Raised(e)
    /\ pc' = "call3"
    /\ t' = 0
    /\ UNCHANGED <<joint, alpha, wcount>>

S2_Enter ==
    /\ pc = "call2"
    /\ IF ~Broadcastable(K1, K2) THEN S2_Raise("RuntimeError")
       ELSE IF ~GatherOK(targets, KJ) THEN S2_Raise("RuntimeError")
       ELSE /\ joint' = joint_probs
            /\ alpha' = [NewFull(T, U, RZero) EXCEPT ![0] = S2Row0(joint_probs, targets)]
            /\ wcount' = Wrote(NoWrites, RowCells(0))
            /\ IF 1 < T THEN pc' = "s2_row" /\ t' = 1
                        ELSE pc' = "s2_return" /\ t' = 0
            /\ UNCHANGED loss2
    /\ UNCHANGED <<inputs, log_alpha, u, staleRead, loss1, loss3, loss4>>

S2_Row ==
    /\ pc = "s2_row"
    /\ alpha' = [alpha EXCEPT ![t] = S2Row(joint, targets, alpha[PrevRow(t)], t)]
    /\ wcount' = Wrote(wcount, RowCells(t))
    /\ staleRead' = (staleRead \/ Stale(wcount, RowCells(PrevRow(t))))
    /\ IF t + 1 < T THEN pc' = "s2_row" /\ t' = t + 1
                    ELSE pc' = "s2_return" /\ t' = t
    /\ UNCHANGED <<inputs, joint, log_alpha, u, loss1, loss2, loss3, loss4>>

S2_Return ==
    /\ pc = "s2_return"
    /\ loss2' = Value(RMul(alpha[T - 1][U - 1], joint[T - 1][U - 1][0]))
    /\ pc' = "call3"
    /\ t' = 0
    /\ UNCHANGED <<inputs, joint, alpha, log_alpha, u, wcount, staleRead,
                   loss1, loss3, loss4>>

----------------------------------------------------------------------------
(* transducer_forward_score3 *)

S3Row0(jnt, tg) == CumSum(FromBot(jnt, tg, 0, LZero))

\* faulty variant: the blank of row tt, not of row tt-1
S3FromLeft_SameRow(jnt, prev, tt) == [uu \in DOMAIN prev |-> LAdd(prev[uu], jnt[tt][uu][0])]

S3FromLeft(jnt, prev, tt) == [uu \in DOMAIN prev |-> LAdd(prev[uu], jnt[tt - 1][uu][0])]

S3Row(jnt, tg, prev, tt) ==
    scanrec_log(FromBot(jnt, tg, tt, LZero), S3FromLeft(jnt, prev, tt))

S3_Raise(e) ==
    /\ loss3' = Raised(e)
    /\ pc' = "call4"
    /\ t' = 0
    /\ UNCHANGED <<joint, log_alpha, wcount>>

S3_Enter ==
    /\ pc = "call3"
    /\ IF ~Broadcastable(K1, K2) THEN S3_Raise("RuntimeError")
       ELSE IF ~GatherOK(targets, KJ) THEN S3_Raise("RuntimeError")
       ELSE /\ joint' = joint_logs
            /\ log_alpha' = [NewFull(T, U, FloatMin) EXCEPT ![0] = S3Row0(joint_logs, targets)]
            /\ wcount' = Wrote(NoWrites, RowCells(0))
            /\ IF 1 < T THEN pc' = "s3_row" /\ t' = 1
                        ELSE pc' = "s3_return" /\ t' = 0
            /\ UNCHANGED loss3
    /\ UNCHANGED <<inputs, alpha, u, staleRead, loss1, loss2, loss4>>

S3_Row ==
    /\ pc = "s3_row"
    /\ log_alpha' = [log_alpha EXCEPT ![t] = S3Row(joint, targets, log_alpha[PrevRow(t)], t)]
    /\ wcount' = Wrote(wcount, RowCells(t))
    /\ staleRead' = (staleRead \/ Stale(wcount, RowCells(PrevRow(t))))
    /\ IF t + 1 < T THEN pc' = "s3_row" /\ t' = t + 1
                    ELSE pc' = "s3_return" /\ t' = t
    /\ UNCHANGED <<inputs, joint, alpha, u, loss1, loss2, loss3, loss4>>

S3_Return ==
    /\ pc = "s3_return"
    /\ loss3' = Value(LAdd(log_alpha[T - 1][U - 1], joint[T - 1][U - 1][0]))
    /\ pc' = "call4"
    /\ t' = 0
    /\ UNCHANGED <<inputs, joint, alpha, log_alpha, u, wcount, staleRead,
                   loss1, loss2, loss4>>

----------------------------------------------------------------------------
(* transducer_forward_score3_transposed *)

Col(tbl, uu) == [tt \in DOMAIN tbl |-> tbl[tt][uu]]
SetCol(tbl, uu, col) ==
    [tt \in DOMAIN tbl |-> [uv \in DOMAIN tbl[tt] |->
        IF uv = uu THEN col[tt] ELSE tbl[tt][uv]]]

\* faulty variant: the blanks are not shifted by one row
S3TFromLeft_NoShift(jnt, uu) == [tt \in DOMAIN jnt |-> jnt[tt][uu][0]]

\* from_left of column uu: the time advance into each row
S3TFromLeft(jnt, uu) == ShiftIn(LZero, [tt \in DOMAIN jnt |-> jnt[tt][uu][0]])

S3TCol0(jnt) == CumSum(S3TFromLeft(jnt, 0))

\* faulty variant: the symbol of column uu, targets[uu]
S3TFromBot_NextTarget(jnt, tg, prev, uu) ==
    [tt \in DOMAIN prev |-> LAdd(prev[tt], jnt[tt][uu - 1][Index(tg[uu], KJ)])]

\* log_alpha[:, uu-1] + joint[:, uu-1, targets[uu-1]]
S3TFromBot(jnt, tg, prev, uu) ==
    [tt \in DOMAIN prev |-> LAdd(prev[tt], jnt[tt][uu - 1][Index(tg[uu - 1], KJ)])]

S3TCol(jnt, tg, prev, uu) ==
    scanrec_log(S3TFromLeft(jnt, uu), S3TFromBot(jnt, tg, prev, uu))

S3T_Raise(e) ==
    /\ loss4' = Raised(e)
    /\ pc' = "done"
    /\ u' = 0
    /\ UNCHANGED <<joint, log_alpha, wcount, staleRead>>

S3T_Enter ==
    /\ pc = "call4"
    /\ IF ~Broadcastable(K1, K2) THEN S3T_Raise("RuntimeError")
       ELSE /\ joint' = joint_logs
            /\ log_alpha' = SetCol(NewFull(T, U, FloatMin), 0, S3TCol0(joint_logs))
            /\ wcount' = Wrote(NoWrites, ColCells(0))
            /\ IF 1 < U THEN pc' = "s3t_col" /\ u' = 1
                        ELSE pc' = "s3t_return" /\ u' = 0
            /\ UNCHANGED <<staleRead, loss4>>
    /\ UNCHANGED <<inputs, alpha, t, loss1, loss2, loss3>>

S3T_Col ==
    /\ pc = "s3t_col"
    /\ IF ~IndexOK(targets[u - 1], KJ) THEN S3T_Raise("IndexError")
       ELSE /\ log_alpha' = SetCol(log_alpha, u,
                                   S3TCol(joint, targets, Col(log_alpha, PrevCol(u)), u))
            /\ wcount' = Wrote(wcount, ColCells(u))
            /\ staleRead' = (staleRead \/ Stale(wcount, ColCells(PrevCol(u))))
            /\ IF u + 1 < U THEN pc' = "s3t_col" /\ u' = u + 1
                            ELSE pc' = "s3t_return" /\ u' = u
            /\ UNCHANGED <<joint, loss4>>
    /\ UNCHANGED <<inputs, alpha, t, loss1, loss2, loss3>>

S3T_Return ==
    /\ pc = "s3t_return"
    /\ loss4' = Value(LAdd(log_alpha[T - 1][U - 1], joint[T - 1][U - 1][0]))
    /\ pc' = "done"
    /\ u' = 0
    /\ UNCHANGED <<inputs, joint, alpha, log_alpha, t, wcount, staleRead,
                   loss1, loss2, loss3>>

----------------------------------------------------------------------------
(* The four functions as functions of the joint lattice and the targets:   *)
(* the same cell, row and column steps, run to the end.                    *)

RECURSIVE S1Table(_, _, _)
\* alpha after the first n cells of the loops, which fill it row by row
S1Table(jnt, tg, n) ==
    IF n = 0 THEN NewFull(T, U, RZero)
    ELSE LET al == S1Table(jnt, tg, n - 1)
             tt == (n - 1) \div U
             uu == (n - 1) % U
         IN  [al EXCEPT ![tt][uu] = S1Cell(jnt, tg, al, tt, uu)]

Score1(jnt, tg) == RMul(S1Table(jnt, tg, T * U)[T - 1][U - 1], jnt[T - 1][U - 1][0])

RECURSIVE S2Rows(_, _, _)
S2Rows(jnt, tg, tt) ==
    IF tt = 0 THEN S2Row0(jnt, tg) ELSE S2Row(jnt, tg, S2Rows(jnt, tg, tt - 1), tt)

Score2(jnt, tg) == RMul(S2Rows(jnt, tg, T - 1)[U - 1], jnt[T - 1][U - 1][0])

RECURSIVE S3Rows(_, _, _)
S3Rows(jnt, tg, tt) ==
    IF tt = 0 THEN S3Row0(jnt, tg) ELSE S3Row(jnt, tg, S3Rows(jnt, tg, tt - 1), tt)

Score3(jnt, tg) == LAdd(S3Rows(jnt, tg, T - 1)[U - 1], jnt[T - 1][U - 1][0])

RECURSIVE S3TCols(_, _, _)
S3TCols(jnt, tg, uu) ==
    IF uu = 0 THEN S3TCol0(jnt) ELSE S3TCol(jnt, tg, S3TCols(jnt, tg, uu - 1), uu)

Score3T(jnt, tg) == LAdd(S3TCols(jnt, tg, U - 1)[T - 1], jnt[T - 1][U - 1][0])

----------------------------------------------------------------------------

Start ==
    /\ pc = "call1"
    /\ joint = <<>>
    /\ alpha = <<>>
    /\ log_alpha = <<>>
    /\ t = 0 /\ u = 0
    /\ loss1 = NoValue /\ loss2 = NoValue /\ loss3 = NoValue /\ loss4 = NoValue
    /\ wcount = <<>>
    /\ staleRead = FALSE

\* the inputs of _test_simple: T = 4, U = 3, K = 4, a blank row followed by
\* ramp rows, targets [0, 1, 2]
SimpleInput ==
    /\ transcription_probs = [i \in 0..3 |-> IF i = 0 THEN BlankRow(4) ELSE RampRow(4)]
    /\ prediction_probs = [i \in 0..2 |-> IF i = 0 THEN BlankRow(4) ELSE RampRow(4)]
    /\ targets = [i \in 0..2 |-> i]

\* inputs that meet the contract: one vocabulary size, targets in [0, K)
Init ==
    /\ \/ \E tn \in 1..MaxT, un \in 1..MaxU, k \in 1..MaxK :
            /\ transcription_probs \in Scores(tn, k)
            /\ prediction_probs \in Scores(un, k)
            /\ targets \in [0..(un - 1) -> 0..(k - 1)]
       \/ SimpleInput
    /\ Start

\* any inputs: the vocabulary sizes may differ, a target may be -1 or K
InitAny ==
    /\ \E tn \in 1..MaxT, un \in 1..MaxU, k1 \in 1..MaxK, k2 \in 1..MaxK :
         /\ transcription_probs \in Scores(tn, k1)
         /\ prediction_probs \in Scores(un, k2)
         /\ targets \in [0..(un - 1) -> (-1)..BroadcastSize(k1, k2)]
    /\ Start

Next ==
    \/ S1_Enter
    \/ S1_Row0
    \/ S1_Col0
    \/ S1_Inner
    \/ S1_Return
    \/ S2_Enter
    \/ S2_Row
    \/ S2_Return
    \/ S3_Enter
    \/ S3_Row
    \/ S3_Return
    \/ S3T_Enter
    \/ S3T_Col
    \/ S3T_Return

Spec == Init /\ [][Next]_vars

SpecAny == InitAny /\ [][Next]_vars

----------------------------------------------------------------------------
(* Properties *)

Losses == <<loss1, loss2, loss3, loss4>>
Returned(l) == l.kind = "value"
AllReturned == \A i \in 1..4 : Returned(Losses[i])
NoneReturned == \A i \in 1..4 : ~Returned(Losses[i])

\* the calls agree with the functions above
CallsAreFunctions ==
    /\ Returned(loss1) => loss1.val = Score1(joint_probs, targets)
    /\ Returned(loss2) => loss2.val = Score2(joint_probs, targets)
    /\ Returned(loss3) => loss3.val = Score3(joint_logs, targets)
    /\ Returned(loss4) => loss4.val = Score3T(joint_logs, targets)

\* C1: on every valid input the nested-loop recurrence (score1) and the
\* row-at-a-time scan formulation (score2) return the same probability.
C1_NaiveEqualsScan ==
    loss2 # NoValue => Returned(loss1) /\ Returned(loss2) /\ loss1.val = loss2.val

C1_Witness ==
    /\ pc = "call3" /\ T = MaxT /\ U = MaxU /\ KJ = MaxK
    /\ Returned(loss2) /\ loss1 = loss2
    /\ loss2.val[1] > 0 /\ loss2.val[1] < loss2.val[2]

\* C2: on every valid input the time-major traversal (score3) and the
\* label-major traversal (score3_transposed) return the same log score.
C2_TimeMajorEqualsLabelMajor ==
    loss4 # NoValue => Returned(loss3) /\ Returned(loss4) /\ loss3.val = loss4.val

C2_Witness ==
    /\ pc = "done" /\ T = MaxT /\ U = MaxU /\ KJ = MaxK
    /\ Returned(loss4) /\ loss3 = loss4
    /\ \E i \in DOMAIN targets : targets[i] # 0

\* C3: on every valid input the probability-domain score (score1, score2)
\* is the exponential of the log-domain score (score3).
C3_ProbEqualsExpLog ==
    loss3 # NoValue =>
        /\ Returned(loss1) /\ Returned(loss2) /\ Returned(loss3)
        /\ loss1.val = Exp(loss3.val)
        /\ loss2.val = Exp(loss3.val)

C3_Witness ==
    /\ pc = "call4" /\ T = MaxT /\ U = MaxU /\ KJ = MaxK
    /\ Returned(loss3) /\ Exp(loss3.val) = loss1.val
    /\ loss1.val[2] > 1

(* Monotonic paths of the lattice, for C4 *)

Moves == {"time", "label"}

\* the paths from (0, 0) to (tt, uu): tt time advances and uu label advances
PathsTo(tt, uu) ==
    {p \in [1..(tt + uu) -> Moves] :
        Cardinality({i \in 1..(tt + uu) : p[i] = "time"}) = tt}

RECURSIVE PathWeight(_, _, _, _, _, _)
\* the product of the weights of the steps p[i], p[i+1], ... taken from (a, b)
PathWeight(jnt, tg, p, i, a, b) ==
    IF i > Len(p) THEN ROne
    ELSE IF p[i] = "time"
         THEN RMul(jnt[a][b][0], PathWeight(jnt, tg, p, i + 1, a + 1, b))
         ELSE RMul(jnt[a][b][tg[b]], PathWeight(jnt, tg, p, i + 1, a, b + 1))

RECURSIVE SumWeights(_, _, _)
SumWeights(jnt, tg, ps) ==
    IF ps = {} THEN RZero
    ELSE LET p == CHOOSE q \in ps : TRUE
         IN  RAdd(PathWeight(jnt, tg, p, 1, 0, 0), SumWeights(jnt, tg, ps \ {p}))

PathMass(jnt, tg, tt, uu) == SumWeights(jnt, tg, PathsTo(tt, uu))

\* C4: when score1 has returned, every alpha[t, u] is the sum over the
\* monotonic paths from (0, 0) to (t, u) of the product of the step weights
\* (blank of the source cell for a time advance, target of the source column
\* for a label advance), alpha[0, 0] is 1, and the score is
\* alpha[T-1, U-1] times the blank probability of the last cell.
C4_AlphaIsPathMass ==
    (pc = "call2" /\ Returned(loss1)) =>
        /\ alpha[0][0] = ROne
        /\ \A c \in Cells : At(alpha, c) = PathMass(joint_probs, targets, c[1], c[2])
        /\ loss1.val = RMul(alpha[T - 1][U - 1], joint_probs[T - 1][U - 1][0])

C4_Witness ==
    /\ pc = "call2" /\ Returned(loss1) /\ T = MaxT /\ U = MaxU /\ KJ = MaxK
    /\ Cardinality(PathsTo(T - 1, U - 1)) > 1
    /\ alpha[T - 1][U - 1] = PathMass(joint_probs, targets, T - 1, U - 1)
    /\ alpha[T - 1][U - 1][2] > 1

BlankColumn == [tt \in 0..(T - 1) |-> joint_probs[tt][0][0]]
LabelRow == [uu \in 0..(U - 1) |->
                IF uu = 0 THEN ROne ELSE joint_probs[0][uu - 1][targets[uu - 1]]]

\* C5: with U = 1 every score is the product over t = 0..T-1 of the blank
\* probabilities joint[t, 0, blank] (their sum in the log domain), and the
\* label loops are never entered.
C5_NoLabels ==
    U = 1 =>
        /\ \A l \in {loss1, loss2} :
              l # NoValue => Returned(l) /\ l.val = RProd(BlankColumn, 0, T - 1)
        /\ \A l \in {loss3, loss4} :
              l # NoValue => Returned(l) /\ Exp(l.val) = RProd(BlankColumn, 0, T - 1)
        /\ pc \notin {"s1_row0", "s1_inner", "s3t_col"}

C5_Witness ==
    /\ U = 1 /\ T = MaxT /\ KJ = MaxK /\ pc = "done"
    /\ AllReturned
    /\ loss1.val = RProd(BlankColumn, 0, T - 1)
    /\ loss1.val[2] > 1

\* C6: with T = 1 every score is the product over u = 1..U-1 of the label
\* probabilities joint[0, u-1, targets[u-1]] times the final blank
\* probability joint[0, U-1, blank], and the time loops are never entered.
C6_OneTimeStep ==
    T = 1 =>
        /\ \A l \in {loss1, loss2} :
              l # NoValue =>
                  /\ Returned(l)
                  /\ l.val = RMul(RProd(LabelRow, 1, U - 1), joint_probs[0][U - 1][0])
        /\ \A l \in {loss3, loss4} :
              l # NoValue =>
                  /\ Returned(l)
                  /\ Exp(l.val) = RMul(RProd(LabelRow, 1, U - 1), joint_probs[0][U - 1][0])
        /\ pc \notin {"s1_col0", "s1_inner", "s2_row", "s3_row"}

C6_Witness ==
    /\ T = 1 /\ U = MaxU /\ KJ = MaxK /\ pc = "done"
    /\ AllReturned
    /\ loss1.val = RMul(RProd(LabelRow, 1, U - 1), joint_probs[0][U - 1][0])
    /\ targets[0] # 0

\* C7: whenever the vocabulary sizes of the transcription and the prediction
\* scores differ, every forward-score call fails and returns no score, also
\* when one of the two sizes is 1.  (Stated for targets that are in range for
\* both sizes, so that nothing but the sizes is wrong with the input.)
C7_KMismatchIsFatal ==
    (K1 # K2 /\ \A i \in DOMAIN targets : 0 <= targets[i] /\ targets[i] < 1)
        => NoneReturned

\* C8: whenever a target label is outside [0, K), every forward-score call
\* fails and returns no score; the label is never taken for another entry of
\* the vocabulary.
C8_InvalidTargetIsFatal ==
    (K1 = K2 /\ \E i \in DOMAIN targets : targets[i] < 0 \/ targets[i] >= K2)
        => NoneReturned

AtReturn == pc \in {"s1_return", "s2_return", "s3_return", "s3t_return"}

\* C9: during a call every cell of the alpha table is assigned at most once,
\* every cell the recurrence reads has been assigned before it is read, and at
\* the return every cell has been assigned exactly once: no step writes to a
\* row or column that is already filled.
C9_BuiltOnceNeverRevisited ==
    /\ ~staleRead
    /\ wcount # <<>> => \A c \in Cells : At(wcount, c) <= 1
    /\ AtReturn => \A c \in Cells : At(wcount, c) = 1

C9_Witness ==
    /\ pc = "s3t_return" /\ T = MaxT /\ U = MaxU
    /\ \A c \in Cells : At(wcount, c) = 1
    /\ ~staleRead

WithLast(tg, v) == [tg EXCEPT ![U - 1] = v]

InUnit(q) == 0 <= q[1] /\ q[1] <= q[2]

RECURSIVE RSum(_, _, _)
RSum(f, lo, hi) == IF hi < lo THEN RZero ELSE RAdd(RSum(f, lo, hi - 1), f[hi])

\* every cell of the joint lattice is a distribution over the K symbols
Normalized ==
    \A c \in Cells :
        /\ \A k \in 0..(KJ - 1) : InUnit(joint_probs[c[1]][c[2]][k])
        /\ RSum(joint_probs[c[1]][c[2]], 0, KJ - 1) = ROne

\* C11: the joint lattice is normalized over K, and at every step of the
\* recurrence every entry of the probability-domain alpha table is in [0, 1]
\* and every entry of the log-domain table is <= 0 (its exponential is in
\* [0, 1]); every returned score is in [0, 1], every log score is <= 0.
C11_AlphaIsProbability ==
    /\ Normalized
    /\ alpha # <<>> => \A c \in Cells : InUnit(At(alpha, c))
    /\ log_alpha # <<>> => \A c \in Cells : InUnit(Exp(At(log_alpha, c)))
    /\ \A i \in {1, 2} : Returned(Losses[i]) => InUnit(Losses[i].val)
    /\ \A i \in {3, 4} : Returned(Losses[i]) => InUnit(Exp(Losses[i].val))

\* no label advance emits the blank: targets[0..U-2] are all non-zero
NoBlankLabel == \A i \in 0..(U - 2) : targets[i] # 0

\* what does hold: with no blank among the labels that are used, the two
\* steps out of a cell are distinct symbols and the bounds of C11 hold
ProbabilityWithoutBlankLabels == NoBlankLabel => C11_AlphaIsProbability

====
